---- MODULE Spec2Model ----
(***************************************************************************)
(* asciimaze: the maze generator (genmaze.cpp, Eller's algorithm, one row  *)
(* at a time) and the maze solver (solmaze.cpp, recursive backtracking on  *)
(* the grid parsed from the ruled text).                                   *)
(*                                                                         *)
(* Rows, sets and text lines are 0-indexed functions as in the source; a   *)
(* text line is a function from 0..len-1 to one-character strings.         *)
(* The generator is modelled with its default options (ruled output, no    *)
(* debug interior).                                                        *)
(***************************************************************************)
EXTENDS Integers, Sequences, FiniteSets, TLC

VARIABLES
    \* ---- genmaze.cpp ----
    width,          \* uint width
    height,         \* uint height (local of main)
    set,            \* uint *set
    row,            \* uint *row
    previousRow,    \* uint *previousRow
    genRow,         \* loop variable i of main's row loop
    col,            \* column loop variable of the running loop of makeRow
    startingSetNum, \* local of makeRow
    maze,           \* history: the rows as they were when they were printed
    closures,       \* history: passages carved by the last loop of makeRow
    randomRow,      \* history: the row as the second loop of makeRow left it
    \* ---- the text between the two programs ----
    stream,         \* lines written by genmaze / lines waiting on solmaze's stdin
    \* ---- solmaze.cpp ----
    m,              \* struct maze
    lineNumber,     \* local of read()
    stack,          \* activation records of solveMaze, innermost last
    isSolvable,     \* local of main
    out,            \* lines written to stdout by write()
    err,            \* lines written to stderr
    exitCode,       \* value returned by main (-1: still running)
    \* ---- observations ----
    oobRead,        \* a QString was read at or beyond its end
    oobWrite,       \* a cell array was written outside 0..width-1
    oobCell,        \* m->rows[y][x] was indexed outside the grid
    passes,         \* cell -> number of times a call passed the CHECKED guard
    onPath,         \* cells whose solveMaze call returned true
    maxDepth,       \* largest number of simultaneously active solveMaze calls
    pc              \* position of the control

vars == <<width, height, set, row, previousRow, genRow, col, startingSetNum,
          maze, closures, randomRow, stream, m, lineNumber, stack, isSolvable, out, err, exitCode,
          oobRead, oobWrite, oobCell, passes, onPath, maxDepth, pc>>

genVars == <<width, height, set, row, previousRow, genRow, col,
             startingSetNum, maze, closures, randomRow>>

solVars == <<m, lineNumber, stack, isSolvable, out, err, exitCode,
             oobRead, oobWrite, oobCell, passes, onPath, maxDepth>>

----------------------------------------------------------------------------
(* Bounds of the model *)

MaxWidth == 3
MaxHeight == 3
\* the largest number of cells of a maze
MaxCells == 9
\* the largest number of cells of a maze text that is damaged
MaxDamagedCells == 4

(* Program constants *)

EMPTY == 0
UP == 1
DOWN == 2
LEFT == 4
RIGHT == 8
CHECKED == 32
BUFFER == 5
PATHMARKER == "X"

NULL == <<>>

----------------------------------------------------------------------------
(* Bit operations on a cell *)

Has(cell, flag) == (cell \div flag) % 2 = 1

Or(cell, flag) == IF Has(cell, flag) THEN cell ELSE cell + flag

Cols(w) == 0..(w - 1)

Zeros(w) == [k \in Cols(w) |-> 0]

----------------------------------------------------------------------------
(* genmaze.cpp *)

\* the line of n characters ch
Fill(n, ch) == [k \in 0..(n - 1) |-> ch]

\* concatenation of two 0-indexed lines
Cat(a, b) ==
    LET la == Cardinality(DOMAIN a)
        lb == Cardinality(DOMAIN b)
    IN  [k \in 0..(la + lb - 1) |-> IF k < la THEN a[k] ELSE b[k - la]]

Str1(c1) == [k \in 0..0 |-> c1]
Str2(c1, c2) == [k \in 0..1 |-> IF k = 0 THEN c1 ELSE c2]

LineLen(line) == Cardinality(DOMAIN line)

\* TopBoundary that forgets the first row
TopBoundary_noFirst(rw, prev, r, isFirst) ==
    IF Has(prev[r], RIGHT) /\ ~Has(rw[r], RIGHT)
    THEN " "
    ELSE IF ~Has(prev[r], RIGHT) THEN "|" ELSE "_"

\* the boundary character of the top line after column r
TopBoundary(rw, prev, r, isFirst) ==
    IF Has(prev[r], RIGHT) /\ ~Has(rw[r], RIGHT)
    THEN " "
    ELSE IF ~isFirst /\ ~Has(prev[r], RIGHT) THEN "|" ELSE "_"

RECURSIVE TopCells(_, _, _, _, _)
TopCells(rw, prev, isFirst, r, w) ==
    IF r >= w THEN <<>>
    ELSE Cat(Cat(IF Has(rw[r], UP) THEN Str2(" ", " ") ELSE Str2("_", "_"),
                 Str1(TopBoundary(rw, prev, r, isFirst))),
             TopCells(rw, prev, isFirst, r + 1, w))

RECURSIVE MiddleCells(_, _, _)
MiddleCells(rw, r, w) ==
    IF r >= w THEN <<>>
    ELSE Cat(Cat(Str2(" ", " "),
                 Str1(IF Has(rw[r], RIGHT) THEN " " ELSE "|")),
             MiddleCells(rw, r + 1, w))

\* BottomCells that leaves the floor of the cells open
RECURSIVE BottomCells_blank(_, _, _)
BottomCells_blank(rw, r, w) ==
    IF r >= w THEN <<>>
    ELSE Cat(Cat(Str1(IF Has(rw[r], LEFT) THEN "_" ELSE "|"),
                 Str2(" ", " ")),
             BottomCells_blank(rw, r + 1, w))

RECURSIVE BottomCells(_, _, _)
BottomCells(rw, r, w) ==
    IF r >= w THEN <<>>
    ELSE Cat(Cat(Str1(IF Has(rw[r], LEFT) THEN "_" ELSE "|"),
                 Str2("_", "_")),
             BottomCells(rw, r + 1, w))

TopLine(rw, prev, isFirst, w) ==
    Cat(Cat(Fill(BUFFER, " "), Str1(IF isFirst THEN " " ELSE "|")),
        TopCells(rw, prev, isFirst, 0, w))

MiddleLine(rw, w) ==
    Cat(Cat(Fill(BUFFER, " "), Str1("|")), MiddleCells(rw, 0, w))

BottomLine(rw, w) ==
    Cat(Cat(Fill(BUFFER, " "), BottomCells(rw, 0, w)), Str1("|"))

\* the lines printed by outputASCII for the row rw below the row prev
outputASCII(rw, prev, isLast, isFirst, w) ==
    IF isLast
    THEN <<TopLine(rw, prev, isFirst, w), MiddleLine(rw, w), BottomLine(rw, w)>>
    ELSE <<TopLine(rw, prev, isFirst, w), MiddleLine(rw, w)>>

\* unionSet that stops at the first column of set b
unionSet_first(s, a, b) ==
    [k \in DOMAIN s |->
        IF s[k] = b /\ ~\E j \in DOMAIN s : j < k /\ s[j] = b
        THEN a ELSE s[k]]

\* merge set b into set a
unionSet(s, a, b) == [k \in DOMAIN s |-> IF s[k] = b THEN a ELSE s[k]]

\* FindFree that takes the number it starts from
FindFree_same(s, n) == n

\* the search of makeRow for a set number that is not taken, from n upwards
RECURSIVE FindFree(_, _)
FindFree(s, n) ==
    IF \E k \in DOMAIN s : s[k] = n THEN FindFree(s, n + 1) ELSE n

isLastRow == genRow = height - 1
isFirstRow == genRow = 0

\* makeRow, first loop, one column
ResetCell ==
    /\ pc = "reset"
    /\ previousRow' = [previousRow EXCEPT ![col] = row[col]]
    /\ IF Has(row[col], DOWN)
       THEN /\ row' = [row EXCEPT ![col] = UP]
            /\ UNCHANGED <<set, startingSetNum>>
       ELSE /\ startingSetNum' = FindFree(set, startingSetNum)
            /\ set' = [set EXCEPT ![col] = startingSetNum']
            /\ row' = [row EXCEPT ![col] = EMPTY]
    /\ IF col + 1 < width
       THEN col' = col + 1 /\ pc' = pc
       ELSE col' = 0 /\ pc' = "carve"
    /\ UNCHANGED <<width, height, genRow, maze, closures, randomRow, stream>>
    /\ UNCHANGED solVars

\* CarveLeft without the test of the sets: passages inside a set
CarveLeft_braid(rw, s, c, coin) ==
    IF coin /\ c > 0
    THEN [rw EXCEPT ![c] = Or(rw[c], LEFT), ![c - 1] = Or(rw[c - 1], RIGHT)]
    ELSE rw

\* CarveLeft that opens the wall from one side only
CarveLeft_oneSided(rw, s, c, coin) ==
    IF coin /\ c > 0 /\ s[c] # s[c - 1]
    THEN [rw EXCEPT ![c] = Or(rw[c], LEFT)]
    ELSE rw

\* the horizontal carve of column c when the coin says so
CarveLeft(rw, s, c, coin) ==
    IF coin /\ c > 0 /\ s[c] # s[c - 1]
    THEN [rw EXCEPT ![c] = Or(rw[c], LEFT), ![c - 1] = Or(rw[c - 1], RIGHT)]
    ELSE rw

\* CarveUnion that leaves the sets as they are
CarveUnion_keep(s, c, coin) == s

\* the sets after the horizontal carve of column c
CarveUnion(s, c, coin) ==
    IF coin /\ c > 0 /\ s[c] # s[c - 1]
    THEN unionSet(s, s[c], s[c - 1])
    ELSE s

\* makeRow, second loop, one column: two calls of rand()
CarveCell ==
    /\ pc = "carve"
    /\ \E coinLeft \in BOOLEAN, coinDown \in BOOLEAN :
         LET carved == CarveLeft(row, set, col, coinLeft)
         IN  /\ set' = CarveUnion(set, col, coinLeft)
             /\ row' = IF coinDown /\ ~isLastRow
                       THEN [carved EXCEPT ![col] = Or(carved[col], DOWN)]
                       ELSE carved
    /\ IF col + 1 < width
       THEN col' = col + 1 /\ pc' = pc
       ELSE /\ col' = 0
            /\ pc' = IF ~isLastRow THEN "force"
                     ELSE IF width - 1 > 0 THEN "close" ELSE "output"
    /\ randomRow' = IF col + 1 < width THEN randomRow ELSE row'
    /\ UNCHANGED <<width, height, previousRow, genRow, startingSetNum, maze,
                   closures, stream>>
    /\ UNCHANGED solVars

\* goDown that never sends a set down
goDown_never(rw, s, c) == FALSE

\* goDown that sends every column down
goDown_always(rw, s, c) == TRUE

\* whether column c has to be sent down: no column of its set goes down
goDown(rw, s, c) == ~\E k \in DOMAIN s : s[k] = s[c] /\ Has(rw[k], DOWN)

\* makeRow, third loop (rows but the last), one column
ForceCell ==
    /\ pc = "force"
    /\ row' = IF ~Has(row[col], DOWN) /\ goDown(row, set, col)
              THEN [row EXCEPT ![col] = Or(row[col], DOWN)]
              ELSE row
    /\ IF col + 1 < width
       THEN col' = col + 1 /\ pc' = pc
       ELSE col' = 0 /\ pc' = "output"
    /\ UNCHANGED <<width, height, set, previousRow, genRow, startingSetNum,
                   maze, closures, randomRow, stream>>
    /\ UNCHANGED solVars

\* CloseCell that carves whatever the sets are
CloseCell_always ==
    /\ pc = "close"
    /\ row' = [row EXCEPT ![col] = Or(row[col], RIGHT),
                          ![col + 1] = Or(row[col + 1], LEFT)]
    /\ set' = set
    /\ closures' = closures + 1
    /\ IF col + 1 < width - 1
       THEN col' = col + 1 /\ pc' = pc
       ELSE col' = 0 /\ pc' = "output"
    /\ UNCHANGED <<width, height, previousRow, genRow, startingSetNum, maze,
                   randomRow, stream>>
    /\ UNCHANGED solVars

\* makeRow, fourth loop (last row), one pair of columns
CloseCell ==
    /\ pc = "close"
    /\ IF set[col] = set[col + 1]
       THEN UNCHANGED <<row, set, closures>>
       ELSE /\ row' = [row EXCEPT ![col] = Or(row[col], RIGHT),
                                  ![col + 1] = Or(row[col + 1], LEFT)]
            /\ set' = unionSet(set, set[col + 1], set[col])
            /\ closures' = closures + 1
    /\ IF col + 1 < width - 1
       THEN col' = col + 1 /\ pc' = pc
       ELSE col' = 0 /\ pc' = "output"
    /\ UNCHANGED <<width, height, previousRow, genRow, startingSetNum, maze,
                   randomRow, stream>>
    /\ UNCHANGED solVars

\* main: the row is printed, then the next row is made or main returns
Output ==
    /\ pc = "output"
    /\ stream' = stream \o outputASCII(row, previousRow, isLastRow,
                                       isFirstRow, width)
    /\ maze' = Append(maze, row)
    /\ IF isLastRow
       THEN /\ pc' = "read"
            /\ UNCHANGED <<genRow, startingSetNum>>
       ELSE /\ pc' = "reset"
            /\ genRow' = genRow + 1
            /\ startingSetNum' = 1
    /\ col' = 0
    /\ randomRow' = <<>>
    /\ UNCHANGED <<width, height, set, row, previousRow, closures>>
    /\ UNCHANGED solVars

----------------------------------------------------------------------------
(* solmaze.cpp *)

\* a / b as C++ computes it on ints (rounding towards zero)
CDiv(a, b) == IF a >= 0 THEN a \div b ELSE -((-a) \div b)

\* The value of a uint that was decremented at 0.  It stands for UINT_MAX,
\* which is larger than any array of the model: only its being outside every
\* array matters.
WRAPPED == -1

Dec(x) == IF x = 0 THEN WRAPPED ELSE x - 1

\* QList / QVector element k, counted from 0
Nth(s, k) == s[k + 1]

\* The characters a read beyond the end of a line can find: the two glyphs
\* the parser compares with, and anything else.
Junk == {"_", "|", "?"}

\* const QString::operator[]: the character at k, or whatever lies there in
\* memory when k is not a position of the line
CharAt(line, k, junk) == IF k < LineLen(line) THEN line[k] ELSE junk

\* ConvertCell that does not give RIGHT to the cell on the left
ConvertCell_leftOnly(rw, a, b, c, i, jb, jc) ==
    LET up == IF a # NULL /\ Has(a[i], DOWN) THEN UP ELSE EMPTY
        down == IF CharAt(c, i * 3 + BUFFER + 1, jc[i]) # "_"
                THEN Or(up, DOWN) ELSE up
        r1 == [rw EXCEPT ![i] = down]
    IN  IF ~(CharAt(b, i * 3 + BUFFER, jb[i]) = "|")
        THEN [r1 EXCEPT ![i] = Or(down, LEFT)]
        ELSE r1

\* ConvertCell that takes UP from the UP of the row above
ConvertCell_upFromUp(rw, a, b, c, i, jb, jc) ==
    LET up == IF a # NULL /\ Has(a[i], UP) THEN UP ELSE EMPTY
        down == IF CharAt(c, i * 3 + BUFFER + 1, jc[i]) # "_"
                THEN Or(up, DOWN) ELSE up
        r1 == [rw EXCEPT ![i] = down]
    IN  IF ~(CharAt(b, i * 3 + BUFFER, jb[i]) = "|")
        THEN IF i > 0
             THEN [r1 EXCEPT ![i] = Or(down, LEFT),
                             ![i - 1] = Or(r1[i - 1], RIGHT)]
             ELSE [r1 EXCEPT ![i] = Or(down, LEFT)]
        ELSE r1

\* convertRow, the body of the loop for column i
ConvertCell(rw, a, b, c, i, jb, jc) ==
    LET up == IF a # NULL /\ Has(a[i], DOWN) THEN UP ELSE EMPTY
        down == IF CharAt(c, i * 3 + BUFFER + 1, jc[i]) # "_"
                THEN Or(up, DOWN) ELSE up
        r1 == [rw EXCEPT ![i] = down]
    IN  IF ~(CharAt(b, i * 3 + BUFFER, jb[i]) = "|")
        THEN IF i > 0
             THEN [r1 EXCEPT ![i] = Or(down, LEFT),
                             ![i - 1] = Or(r1[i - 1], RIGHT)]
             ELSE [r1 EXCEPT ![i] = Or(down, LEFT)]
        ELSE r1

RECURSIVE ConvertFrom(_, _, _, _, _, _, _, _)
ConvertFrom(rw, a, b, c, i, w, jb, jc) ==
    IF i >= w THEN rw
    ELSE ConvertFrom(ConvertCell(rw, a, b, c, i, jb, jc), a, b, c, i + 1, w,
                     jb, jc)

\* convertRow: three lines of text into one row of cells
convertRow(a, b, c, w, jb, jc) == ConvertFrom(Zeros(w), a, b, c, 0, w, jb, jc)

\* convertRow reads b or c at or beyond its end
ConvertReadsBeyond(b, c, w) ==
    \E i \in Cols(w) : \/ i * 3 + BUFFER + 1 >= LineLen(c)
                       \/ i * 3 + BUFFER >= LineLen(b)

\* convertRow writes row[i - 1] for i = 0
ConvertWritesBefore(b, w, jb) ==
    w > 0 /\ ~(CharAt(b, BUFFER, jb[0]) = "|")

\* row[i - 1] |= RIGHT for i = 0 writes the two bytes before the new array.
\* They belong to the allocator, or to the array allocated just before, the
\* row above, whose last cell then gets RIGHT.  k is the position of the
\* row above in rows, from 0.
WriteBefore(rows, k, w, lands) ==
    IF lands /\ k >= 0 /\ w > 0
    THEN [rows EXCEPT ![k + 1] = [@ EXCEPT ![w - 1] = Or(@, RIGHT)]]
    ELSE rows

\* what the reads beyond the end of a line can return, per column
JunkFor(line, w, off) ==
    {j \in [Cols(w) -> Junk] :
        \A i \in Cols(w) : i * 3 + off < LineLen(line) => j[i] = "?"}

\* QVector::resize
resize(v, n) ==
    [k \in 1..n |-> IF k <= Len(v) THEN v[k] ELSE NULL]

\* QVector::insert(k, x), k counted from 0
insert(v, k, x) ==
    [j \in 1..(Len(v) + 1) |->
        IF j < k + 1 THEN v[j] ELSE IF j = k + 1 THEN x ELSE v[j - 1]]

\* read(): one turn of the loop, a line is there
ReadLine ==
    /\ pc = "read"
    /\ Len(m.list) < Len(stream)
    /\ LET list1 == Append(m.list, Nth(stream, Len(m.list)))
           width1 == IF lineNumber = 1
                     THEN CDiv(LineLen(Nth(list1, 1)) - BUFFER, 3)
                     ELSE m.width
           ln == lineNumber + 1
       IN  /\ lineNumber' = ln
           /\ IF lineNumber % 2 # 0 \/ ln <= 2
              THEN /\ m' = [m EXCEPT !.list = list1, !.width = width1]
                   /\ UNCHANGED <<oobRead, oobWrite>>
              ELSE LET lastRow == IF ln > 3
                                  THEN Nth(m.rows, (ln \div 2) - 2)
                                  ELSE NULL
                       b == Nth(list1, ln - 2)
                       c == Nth(list1, ln - 1)
                       rows1 == IF Len(m.rows) <= ln \div 2
                                THEN resize(m.rows, ln * 4)
                                ELSE m.rows
                   IN  \E jb \in JunkFor(b, width1, BUFFER),
                          jc \in JunkFor(c, width1, BUFFER + 1),
                          lands \in BOOLEAN :
                         /\ m' = [m EXCEPT
                                    !.list = list1,
                                    !.width = width1,
                                    !.rows = insert(
                                               IF ConvertWritesBefore(b, width1, jb)
                                               THEN WriteBefore(rows1,
                                                        (ln \div 2) - 2,
                                                        width1, lands)
                                               ELSE rows1,
                                               (ln \div 2) - 1,
                                               convertRow(lastRow, b, c,
                                                          width1, jb, jc))]
                         /\ oobRead' = (oobRead
                                          \/ ConvertReadsBeyond(b, c, width1))
                         /\ oobWrite' = (oobWrite
                                          \/ ConvertWritesBefore(b, width1, jb))
    /\ UNCHANGED <<stack, isSolvable, out, err, exitCode, oobCell, passes,
                   onPath, maxDepth, pc, stream>>
    /\ UNCHANGED genVars

\* read(): the end of the input
ReadEOF ==
    /\ pc = "read"
    /\ Len(m.list) = Len(stream)
    /\ m' = [m EXCEPT !.rows = resize(m.rows, lineNumber \div 2),
                      !.height = (lineNumber \div 2) - 1]
    /\ pc' = "main"
    /\ UNCHANGED <<lineNumber, stack, isSolvable, out, err, exitCode, oobRead,
                   oobWrite, oobCell, passes, onPath, maxDepth, stream>>
    /\ UNCHANGED genVars

\* QString::operator[] = : a position beyond the end extends the line with
\* spaces
SetChar(line, k, ch) ==
    [j \in 0..((IF k < LineLen(line) THEN LineLen(line) ELSE k + 1) - 1) |->
        IF j = k THEN ch ELSE IF j < LineLen(line) THEN line[j] ELSE " "]

\* solutionCell that marks the cell to the right
solutionCell_shifted(list, x, y) ==
    [list EXCEPT ![y * 2 + 1 + 1] =
        SetChar(SetChar(@, x * 3 + BUFFER + 4, PATHMARKER),
                x * 3 + BUFFER + 5, PATHMARKER)]

\* solutionCell that marks the first interior character only
solutionCell_half(list, x, y) ==
    [list EXCEPT ![y * 2 + 1 + 1] =
        SetChar(@, x * 3 + BUFFER + 1, PATHMARKER)]

\* solutionCell: the text of cell x y is marked
solutionCell(list, x, y) ==
    [list EXCEPT ![y * 2 + 1 + 1] =
        SetChar(SetChar(@, x * 3 + BUFFER + 1, PATHMARKER),
                x * 3 + BUFFER + 2, PATHMARKER)]

\* m->rows[y][x] is a cell of the grid
InGrid(x, y) ==
    /\ y >= 0 /\ y < Len(m.rows)
    /\ x >= 0 /\ x < m.width
    /\ Nth(m.rows, y) # NULL

Frame(x, y, from) ==
    [x |-> x, y |-> y, from |-> from, cell |-> 0, foundEnd |-> FALSE,
     pc |-> "enter"]

Top == stack[Len(stack)]

Max(a, b) == IF a >= b THEN a ELSE b

\* main: the start and the destination are chosen, solveMaze is called
SolveStart ==
    /\ pc = "main"
    /\ m' = [m EXCEPT !.destX = Dec(m.width), !.destY = 0]
    /\ stack' = <<Frame(0, m.height, EMPTY)>>
    /\ maxDepth' = 1
    /\ passes' = [c \in Cols(m.width) \X (0..m.height) |-> 0]
    /\ pc' = "solve"
    /\ UNCHANGED <<lineNumber, isSolvable, out, err, exitCode, oobRead,
                   oobWrite, oobCell, onPath, stream>>
    /\ UNCHANGED genVars

\* MarkChecked that leaves the cell as it is
MarkChecked_forget(cell) == cell

\* the CHECKED mark of a cell
MarkChecked(cell) == Or(cell, CHECKED)

\* the innermost call returns val to its caller
ReturnValue(val) ==
    IF Len(stack) = 1
    THEN /\ stack' = <<>>
         /\ isSolvable' = val
         /\ pc' = "finish"
    ELSE /\ stack' = [SubSeq(stack, 1, Len(stack) - 1)
                        EXCEPT ![Len(stack) - 1].foundEnd = val]
         /\ UNCHANGED <<isSolvable, pc>>

\* solveMaze: the cell is read, the CHECKED guard, the destination test
SolveEnter ==
    /\ pc = "solve"
    /\ Top.pc = "enter"
    /\ IF ~InGrid(Top.x, Top.y)
       THEN /\ oobCell' = TRUE
            /\ \E val \in BOOLEAN : ReturnValue(val)
            /\ UNCHANGED <<m, passes, onPath>>
       ELSE LET cell == Nth(m.rows, Top.y)[Top.x]
            IN  /\ UNCHANGED oobCell
                /\ IF Has(cell, CHECKED)
                   THEN /\ ReturnValue(FALSE)
                        /\ UNCHANGED <<m, passes, onPath>>
                   ELSE /\ passes' = [passes EXCEPT ![<<Top.x, Top.y>>] = @ + 1]
                        /\ IF Top.x = m.destX /\ Top.y = m.destY
                           THEN /\ m' = [m EXCEPT
                                     !.rows[Top.y + 1][Top.x] = MarkChecked(cell),
                                     !.list = solutionCell(@, Top.x, Top.y)]
                                /\ onPath' = onPath \cup {<<Top.x, Top.y>>}
                                /\ ReturnValue(TRUE)
                           ELSE /\ m' = [m EXCEPT
                                     !.rows[Top.y + 1][Top.x] = MarkChecked(cell)]
                                /\ stack' = [stack EXCEPT
                                               ![Len(stack)].cell = cell,
                                               ![Len(stack)].pc = "left"]
                                /\ UNCHANGED <<onPath, isSolvable, pc>>
    /\ UNCHANGED <<lineNumber, out, err, exitCode, oobRead, oobWrite,
                   maxDepth, stream>>
    /\ UNCHANGED genVars

\* one of the four attempts of solveMaze: the call is made when the test
\* allows it, and the control moves to the next attempt
Try(here, test, x, y, dir, next) ==
    /\ pc = "solve"
    /\ Top.pc = here
    /\ IF test
       THEN stack' = Append([stack EXCEPT ![Len(stack)].pc = next],
                            Frame(x, y, dir))
       ELSE stack' = [stack EXCEPT ![Len(stack)].pc = next]
    /\ maxDepth' = Max(maxDepth, Len(stack'))
    /\ UNCHANGED <<m, lineNumber, isSolvable, out, err, exitCode, oobRead,
                   oobWrite, oobCell, passes, onPath, pc, stream>>
    /\ UNCHANGED genVars

TryLeft ==
    Try("left", Top.from # RIGHT /\ Has(Top.cell, LEFT),
        Dec(Top.x), Top.y, LEFT, "up")

\* TryUp that does not ask whether the way to the left succeeded
TryUp_noShort ==
    Try("up", Top.from # DOWN /\ Has(Top.cell, UP),
        Top.x, Dec(Top.y), UP, "down")

TryUp ==
    Try("up", ~Top.foundEnd /\ Top.from # DOWN /\ Has(Top.cell, UP),
        Top.x, Dec(Top.y), UP, "down")

\* TryDown that takes DOWN for the direction that leads back
TryDown_wrongFrom ==
    Try("down", ~Top.foundEnd /\ Top.from # DOWN /\ Has(Top.cell, DOWN),
        Top.x, Top.y + 1, DOWN, "right")

TryDown ==
    Try("down", ~Top.foundEnd /\ Top.from # UP /\ Has(Top.cell, DOWN),
        Top.x, Top.y + 1, DOWN, "right")

\* TryRight that takes RIGHT for the direction that leads back
TryRight_wrongFrom ==
    Try("right", ~Top.foundEnd /\ Top.from # RIGHT /\ Has(Top.cell, RIGHT),
        Top.x + 1, Top.y, RIGHT, "mark")

TryRight ==
    Try("right", ~Top.foundEnd /\ Top.from # LEFT /\ Has(Top.cell, RIGHT),
        Top.x + 1, Top.y, RIGHT, "mark")

\* solveMaze: the cell is marked when it is on the path, and the call returns
SolveReturn ==
    /\ pc = "solve"
    /\ Top.pc = "mark"
    /\ IF Top.foundEnd
       THEN /\ m' = [m EXCEPT !.list = solutionCell(@, Top.x, Top.y)]
            /\ onPath' = onPath \cup {<<Top.x, Top.y>>}
       ELSE UNCHANGED <<m, onPath>>
    /\ ReturnValue(Top.foundEnd)
    /\ UNCHANGED <<lineNumber, out, err, exitCode, oobRead, oobWrite, oobCell,
                   passes, maxDepth, stream>>
    /\ UNCHANGED genVars

\* write(): every line of the list goes to stdout
write(list) == list

\* main: the maze is written or the failure is reported, and main returns
Finish ==
    /\ pc = "finish"
    /\ IF isSolvable
       THEN out' = write(m.list) /\ UNCHANGED err
       ELSE err' = Append(err, "No path found through maze.") /\ UNCHANGED out
    /\ exitCode' = IF isSolvable THEN 1 ELSE 0
    /\ pc' = "exit"
    /\ UNCHANGED <<m, lineNumber, stack, isSolvable, oobRead, oobWrite,
                   oobCell, passes, onPath, maxDepth, stream>>
    /\ UNCHANGED genVars

----------------------------------------------------------------------------
(* The start of solmaze: main before read() *)

SolInit ==
    /\ m = [list |-> <<>>, width |-> 0, height |-> 0,
            rows |-> <<NULL, NULL>>, destX |-> 0, destY |-> 0]
    /\ lineNumber = 0
    /\ stack = <<>>
    /\ isSolvable = FALSE
    /\ out = <<>>
    /\ err = <<>>
    /\ exitCode = -1
    /\ oobRead = FALSE
    /\ oobWrite = FALSE
    /\ oobCell = FALSE
    /\ passes = <<>>
    /\ onPath = {}
    /\ maxDepth = 0

\* genmaze: main after the arguments are read
Init ==
    /\ width \in 1..MaxWidth
    /\ height \in 1..MaxHeight
    /\ width * height <= MaxCells
    /\ set = [k \in Cols(width) |-> k + width + 1]
    /\ row = Zeros(width)
    /\ previousRow = Zeros(width)
    /\ genRow = 0
    /\ col = 0
    /\ startingSetNum = 1
    /\ maze = <<>>
    /\ closures = 0
    /\ randomRow = <<>>
    /\ stream = <<>>
    /\ pc = "reset"
    /\ SolInit

\* the passages a grid of w x h cells can have: <<x, y, "h">> joins the cell
\* x y with its right neighbour, <<x, y, "v">> with the cell below
Edges(w, h) ==
    {<<x, y, "h">> : x \in 0..(w - 2), y \in 0..(h - 1)}
        \cup {<<x, y, "v">> : x \in 0..(w - 1), y \in 0..(h - 2)}

\* the grid with the passages E, every passage set in both of its cells
GridOf(w, h, E) ==
    [y \in 1..h |->
        [x \in Cols(w) |->
            (IF <<x, y - 2, "v">> \in E THEN UP ELSE 0)
          + (IF <<x, y - 1, "v">> \in E THEN DOWN ELSE 0)
          + (IF <<x - 1, y - 1, "h">> \in E THEN LEFT ELSE 0)
          + (IF <<x, y - 1, "h">> \in E THEN RIGHT ELSE 0)]]

\* the ruled text of the grid g, as outputASCII writes it row by row
RECURSIVE RenderFrom(_, _, _, _)
RenderFrom(g, y, w, h) ==
    IF y > h THEN <<>>
    ELSE outputASCII(g[y], IF y = 1 THEN Zeros(w) ELSE g[y - 1],
                     y = h, y = 1, w)
           \o RenderFrom(g, y + 1, w, h)

RenderMaze(g, w, h) == RenderFrom(g, 1, w, h)

\* the variables of genmaze when the text does not come from a run of it
NoGenerator(g, w, h) ==
    /\ width = w
    /\ height = h
    /\ set = Zeros(w)
    /\ row = Zeros(w)
    /\ previousRow = Zeros(w)
    /\ genRow = h - 1
    /\ col = 0
    /\ startingSetNum = 1
    /\ maze = g
    /\ closures = 0
    /\ randomRow = <<>>

\* solmaze on the ruled text of any grid whose passages are symmetric and
\* stay inside the grid: trees, braids and grids that are not connected
SolverInit ==
    /\ \E w \in 1..MaxWidth, h \in 1..MaxHeight :
         /\ w * h <= MaxCells
         /\ \E E \in SUBSET Edges(w, h) :
              /\ NoGenerator(GridOf(w, h, E), w, h)
              /\ stream = RenderMaze(GridOf(w, h, E), w, h)
    /\ pc = "read"
    /\ SolInit

\* the line cut to its first n characters
Truncate(line, n) == [k \in 0..(n - 1) |-> line[k]]

\* the text with line l (from 0) replaced
WithLine(text, l, line) == [text EXCEPT ![l + 1] = line]

\* The damaged texts of a ruled text: one line cut short, or one character
\* replaced by another glyph.  The second line, which gives the width, keeps
\* its margin.
Damaged(text) ==
    UNION {
        {WithLine(text, l, Truncate(Nth(text, l), n)) :
            n \in (IF l = 1 THEN BUFFER ELSE 0)..LineLen(Nth(text, l))}
        \cup
        {WithLine(text, l, [Nth(text, l) EXCEPT ![k] = ch]) :
            k \in 0..(LineLen(Nth(text, l)) - 1), ch \in {" ", "_", "|"}}
        : l \in 0..(Len(text) - 1)}

\* read() on a ruled text that is ragged or has a wrong glyph
ParseInit ==
    /\ \E w \in 1..MaxWidth, h \in 1..MaxHeight :
         /\ w * h <= MaxDamagedCells
         /\ \E E \in SUBSET Edges(w, h) :
              /\ NoGenerator(GridOf(w, h, E), w, h)
              /\ stream \in Damaged(RenderMaze(GridOf(w, h, E), w, h))
    /\ pc = "read"
    /\ SolInit

Next ==
    \/ ResetCell
    \/ CarveCell
    \/ ForceCell
    \/ CloseCell
    \/ Output
    \/ ReadLine
    \/ ReadEOF
    \/ SolveStart
    \/ SolveEnter
    \/ TryLeft
    \/ TryUp
    \/ TryDown
    \/ TryRight
    \/ SolveReturn
    \/ Finish

Spec == Init /\ [][Next]_vars

\* solmaze alone
SolverNext ==
    \/ ReadLine
    \/ ReadEOF
    \/ SolveStart
    \/ SolveEnter
    \/ TryLeft
    \/ TryUp
    \/ TryDown
    \/ TryRight
    \/ SolveReturn
    \/ Finish

SolverSpec == SolverInit /\ [][SolverNext]_vars

\* solmaze runs to completion
FairSolverSpec == SolverSpec /\ WF_vars(SolverNext)

\* read() alone
ParseNext ==
    \/ ReadLine
    \/ ReadEOF

ParseSpec == ParseInit /\ [][ParseNext]_vars

----------------------------------------------------------------------------
(* The passage graph of a grid g of w x h cells (rows g[1]..g[h]) *)

GridCells(w, h) == Cols(w) \X (0..(h - 1))

\* the cells the flags of cell c lead to (inside the grid or not)
Neighbours(g, c) ==
    LET cell == g[c[2] + 1][c[1]]
    IN  (IF Has(cell, LEFT) THEN {<<c[1] - 1, c[2]>>} ELSE {})
          \cup (IF Has(cell, UP) THEN {<<c[1], c[2] - 1>>} ELSE {})
          \cup (IF Has(cell, DOWN) THEN {<<c[1], c[2] + 1>>} ELSE {})
          \cup (IF Has(cell, RIGHT) THEN {<<c[1] + 1, c[2]>>} ELSE {})

\* the cells of the grid reached from the cells of seen through passages
RECURSIVE ReachFrom(_, _, _)
ReachFrom(g, cells, seen) ==
    LET more == (UNION {Neighbours(g, c) : c \in seen} \cap cells) \ seen
    IN  IF more = {} THEN seen ELSE ReachFrom(g, cells, seen \cup more)

Reach(g, w, h, c) == ReachFrom(g, GridCells(w, h), {c})

\* the passage e is carved, seen from either of its two cells
Carved(g, e) ==
    IF e[3] = "h"
    THEN Has(g[e[2] + 1][e[1]], RIGHT) \/ Has(g[e[2] + 1][e[1] + 1], LEFT)
    ELSE Has(g[e[2] + 1][e[1]], DOWN) \/ Has(g[e[2] + 2][e[1]], UP)

PassageCount(g, w, h) == Cardinality({e \in Edges(w, h) : Carved(g, e)})

GenPhases == {"reset", "carve", "force", "close", "output"}

\* genmaze has just printed its last row and returned
GenDone == pc = "read" /\ lineNumber = 0 /\ Len(maze) = height

----------------------------------------------------------------------------
(* Claims *)

\* C1: after makeRow has run for all height rows, every cell of the grid is
\* reachable from every other cell through carved passages.
C1_TotalConnectivity ==
    GenDone =>
        \A c \in GridCells(width, height) :
            Reach(maze, width, height, c) = GridCells(width, height)

\* a finished maze of the largest size with more than one row and column
C1_Witness ==
    /\ GenDone
    /\ width = MaxWidth /\ height = MaxHeight
    /\ Reach(maze, width, height, <<0, 0>>) = GridCells(width, height)

\* C2: the finished maze has exactly width*height - 1 undirected passages,
\* those carved by the last loop of makeRow included: it has no cycle.
C2_NoCycle ==
    GenDone => PassageCount(maze, width, height) = width * height - 1

\* a finished maze in which the last loop of makeRow carved passages
C2_Witness ==
    /\ GenDone
    /\ closures >= 2
    /\ height >= 2
    /\ PassageCount(maze, width, height) = width * height - 1

\* the grid of solmaze, its cells, its start and its destination
SolCells == GridCells(m.width, m.height + 1)
StartCell == <<0, m.height>>
DestCell == <<m.destX, m.destY>>

\* the cells whose two interior characters are the path marker
MarkedCells ==
    {c \in SolCells :
        /\ Nth(m.list, c[2] * 2 + 1)[c[1] * 3 + BUFFER + 1] = PATHMARKER
        /\ Nth(m.list, c[2] * 2 + 1)[c[1] * 3 + BUFFER + 2] = PATHMARKER}

\* the cells of rest can be put in a row after cur, each joined by a passage
\* to the one before it, the last one being d
RECURSIVE PathThrough(_, _, _, _)
PathThrough(g, cur, rest, d) ==
    IF rest = {} THEN cur = d
    ELSE \E n \in rest \cap Neighbours(g, cur) :
            PathThrough(g, n, rest \ {n}, d)

\* M is exactly the cells of one simple path from s to d
IsSimplePath(g, M, s, d) == s \in M /\ PathThrough(g, s, M \ {s}, d)

\* every passage of g is set in both of its cells and stays inside the grid
WellFormed(g, w, h) ==
    \A c \in GridCells(w, h) :
        \A n \in Neighbours(g, c) :
            n \in GridCells(w, h) /\ c \in Neighbours(g, n)

IsTree(g, w, h) ==
    /\ Reach(g, w, h, <<0, 0>>) = GridCells(w, h)
    /\ PassageCount(g, w, h) = w * h - 1

\* the cells no path from s to d can avoid
OnEveryPath(g, w, h, s, d) ==
    {c \in GridCells(w, h) :
        c \in {s, d} \/ d \notin ReachFrom(g, GridCells(w, h) \ {c}, {s})}

\* solveMaze has just returned to main
Returned == pc = "finish"

\* C3: when solveMaze called at the start cell returns success, the marked
\* cells are exactly the cells of one simple path of passages from the start
\* to the destination; on a tree it is the only path between them.
C3_SolverMarking ==
    (Returned /\ isSolvable) =>
        /\ IsSimplePath(m.rows, MarkedCells, StartCell, DestCell)
        /\ IsTree(m.rows, m.width, m.height + 1) =>
              MarkedCells = OnEveryPath(m.rows, m.width, m.height + 1,
                                        StartCell, DestCell)

\* a success on a grid with a cycle, where cells off the path were searched
C3_Witness ==
    /\ Returned /\ isSolvable
    /\ PassageCount(m.rows, m.width, m.height + 1) >= m.width * (m.height + 1)
    /\ Cardinality(MarkedCells) >= 4
    /\ \E c \in SolCells : passes[c] = 1 /\ c \notin MarkedCells
    /\ IsSimplePath(m.rows, MarkedCells, StartCell, DestCell)

\* C4: on a grid whose passages are symmetric and stay inside the grid,
\* solveMaze called at the start cell with from = EMPTY returns failure only
\* if the destination cannot be reached from the start through passages.
C4_SolverComplete ==
    (Returned /\ ~isSolvable /\ WellFormed(m.rows, m.width, m.height + 1)) =>
        DestCell \notin Reach(m.rows, m.width, m.height + 1, StartCell)

\* a failure after a search of several cells
C4_Witness ==
    /\ Returned /\ ~isSolvable
    /\ WellFormed(m.rows, m.width, m.height + 1)
    /\ Cardinality({c \in SolCells : passes[c] = 1}) >= 4
    /\ DestCell \notin Reach(m.rows, m.width, m.height + 1, StartCell)

\* C5: when the start and the destination lie in components that are not
\* connected, solmaze writes no maze text and ends with a non-zero status.
C5_UnsolvableDetection ==
    (pc = "exit"
        /\ DestCell \notin Reach(maze, width, height, <<0, height - 1>>)) =>
        (out = <<>> /\ exitCode # 0)

\* read() has returned
ReadDone == pc = "main"

\* C6: the text genmaze prints, read back by read/convertRow, gives the width
\* of the generator, exactly height rows, and in every row and column the
\* bitmask the generator had when it printed the row.
C6_RoundTrip ==
    (ReadDone /\ Len(maze) = height) =>
        /\ m.width = width
        /\ Len(m.rows) = height
        /\ m.height + 1 = height
        /\ \A y \in 0..(height - 1) :
              \A x \in Cols(width) : Nth(m.rows, y)[x] = maze[y + 1][x]

\* a generated maze of the largest size, read back
C6_Witness ==
    /\ ReadDone
    /\ width = MaxWidth /\ height = MaxHeight
    /\ \E x \in Cols(width) : Has(maze[2][x], RIGHT) /\ Has(maze[2][x], DOWN)
    /\ m.rows = maze

\* C7: on every grid whose passages stay inside it, cycles or not, the
\* search ends, and no cell passes the CHECKED guard more than once.
C7_SolverTerminates ==
    /\ [](\A c \in DOMAIN passes : passes[c] <= 1)
    /\ <>(pc = "exit")

\* the end of a search on a grid with a cycle that was walked around
C7_Witness ==
    /\ pc = "exit"
    /\ PassageCount(m.rows, m.width, m.height + 1) >= m.width * (m.height + 1)
    /\ \A c \in SolCells : passes[c] = 1

\* the text solmaze has to write: the input, with the two interior
\* characters of every cell of the path replaced by the marker
Expected(text, path) ==
    [l \in 1..Len(text) |->
        [k \in DOMAIN text[l] |->
            IF \E c \in path :
                  /\ l - 1 = 2 * c[2] + 1
                  /\ k \in {3 * c[1] + 6, 3 * c[1] + 7}
            THEN "X" ELSE text[l][k]]]

\* C8: on success the text written is the input line for line, except that
\* the two interior characters of every cell of the found path are 'X'.
C8_OutputFrame ==
    (pc = "exit" /\ isSolvable) => out = Expected(stream, onPath)

\* a written maze with a path of several cells and cells off the path
C8_Witness ==
    /\ pc = "exit" /\ isSolvable
    /\ Cardinality(onPath) >= 3
    /\ \E c \in SolCells : c \notin onPath
    /\ out = Expected(stream, onPath)
    /\ out # stream

\* C9: convertRow never reads a line at or beyond its end and never writes a
\* cell outside columns 0..width-1.
C9_ParserBounds == ~oobRead /\ ~oobWrite

\* a row has just been printed: row and previousRow are the printed ones
JustPrinted == Len(maze) > 0 /\ (GenDone \/ (pc = "reset" /\ col = 0))

\* the boundary character after column r in the top line printed last
PrintedBoundary(r) ==
    Nth(stream, 2 * (Len(maze) - 1))[3 * r + BUFFER + 3]

\* C10 as claimed: the boundary character after column r is ' ' when the row
\* above had RIGHT at r and this row lacks it, and '_' in every other case.
C10_TopGlyphsClaimed ==
    JustPrinted =>
        \A r \in Cols(width) :
            PrintedBoundary(r) =
                IF Has(previousRow[r], RIGHT) /\ ~Has(row[r], RIGHT)
                THEN " " ELSE "_"

\* C10 amended: the boundary character after column r is ' ' when the row
\* above had RIGHT at r and this row lacks it; otherwise '|' when the row
\* above lacked RIGHT at r and this is not the first row; otherwise '_'.
C10_TopGlyphs ==
    JustPrinted =>
        \A r \in Cols(width) :
            /\ (Has(previousRow[r], RIGHT) /\ ~Has(row[r], RIGHT))
                  => PrintedBoundary(r) = " "
            /\ (~Has(previousRow[r], RIGHT) /\ Len(maze) > 1)
                  => PrintedBoundary(r) = "|"
            /\ (Has(previousRow[r], RIGHT) /\ Has(row[r], RIGHT))
                  => PrintedBoundary(r) = "_"
            /\ Len(maze) = 1 => PrintedBoundary(r) = "_"

\* a printed row below the first with the three glyphs in its top line
C10_Witness ==
    /\ JustPrinted
    /\ Len(maze) > 1
    /\ \E r \in Cols(width) : PrintedBoundary(r) = " "
    /\ \E r \in Cols(width) : PrintedBoundary(r) = "|"
    /\ \E r \in Cols(width) : PrintedBoundary(r) = "_"

\* the set numbers that are in use in the row
Labels(s) == {s[k] : k \in DOMAIN s}

\* the rows but the last have been printed, the last row is not yet begun
BeforeLastRow ==
    /\ height >= 2
    /\ Len(maze) = height - 1
    /\ pc = "reset" /\ col = 0

\* C11 as claimed: for height >= 2 the passages carved among the cells of
\* rows 0..height-2 are exactly width*(height-1) - 1.
C11_SubMazeClaimed ==
    BeforeLastRow =>
        PassageCount(maze, width, height - 1) = width * (height - 1) - 1

\* C11 amended: the passages carved among the cells of rows 0..height-2 are
\* width*(height-1) - k, k being the number of sets of row height-2 when
\* it was printed; they are never more than width*(height-1) - 1.
C11_SubMaze ==
    BeforeLastRow =>
        /\ PassageCount(maze, width, height - 1)
              = width * (height - 1) - Cardinality(Labels(set))
        /\ PassageCount(maze, width, height - 1) <= width * (height - 1) - 1

\* the rows but the last are printed and end in more than one set
C11_Witness ==
    /\ BeforeLastRow
    /\ height = MaxHeight /\ width = MaxWidth
    /\ Cardinality(Labels(set)) >= 2
    /\ PassageCount(maze, width, height - 1) < width * (height - 1) - 1

\* the rows printed so far with the row that is being made below them
Carving == Append(maze, row)

\* columns i and j of the row that is being made are joined by passages
JoinedNow(i, j) ==
    <<j, Len(maze)>> \in Reach(Carving, width, Len(maze) + 1, <<i, Len(maze)>>)

\* C12: once the first loop of makeRow has finished, after every horizontal
\* carve and when makeRow returns, two columns have the same set number if
\* and only if their cells are joined by the passages carved so far.
C12_SetsAreComponents ==
    pc \in {"carve", "force", "close", "output"} =>
        \A i, j \in Cols(width) : (set[i] = set[j]) <=> JoinedNow(i, j)

\* in a row below the first, while it is carved, one set holds columns that
\* are not neighbours (joined through the rows above) and another is apart
C12_Witness ==
    /\ pc = "carve" /\ col > 0
    /\ genRow >= 1
    /\ \E i, j \in Cols(width) : set[i] # set[j] /\ ~JoinedNow(i, j)
    /\ \E i, j \in Cols(width) :
         i + 1 < j /\ set[i] = set[j] /\ JoinedNow(i, j)

\* makeRow has returned from a row that is not the last
RowMade == pc = "output" /\ ~isLastRow

\* the columns of the set with number l
ColumnsOf(l) == {k \in Cols(width) : set[k] = l}

\* the columns the third loop of makeRow has sent down
Forced == {k \in Cols(width) : Has(row[k], DOWN) /\ ~Has(randomRow[k], DOWN)}

Least(S) == CHOOSE k \in S : \A j \in S : k <= j

\* C13: when makeRow(isLast = false) returns, every set of the row has a
\* column with DOWN; the third loop has set DOWN on exactly the leftmost
\* column of each set that had no DOWN after the second loop, on no column
\* of a set that had one, and has changed nothing else.
C13_ForcedDown ==
    RowMade =>
        /\ \A l \in Labels(set) : \E k \in ColumnsOf(l) : Has(row[k], DOWN)
        /\ \A l \in Labels(set) :
              Forced \cap ColumnsOf(l) =
                  IF \E k \in ColumnsOf(l) : Has(randomRow[k], DOWN)
                  THEN {}
                  ELSE {Least(ColumnsOf(l))}
        /\ \A k \in Cols(width) :
              row[k] = IF k \in Forced THEN randomRow[k] + DOWN
                       ELSE randomRow[k]

\* a row where a set of several columns was sent down at its leftmost
\* column and another set went down by itself
C13_Witness ==
    /\ RowMade
    /\ \E l \in Labels(set) :
         /\ Cardinality(ColumnsOf(l)) >= 2
         /\ Forced \cap ColumnsOf(l) # {}
    /\ \E l \in Labels(set) :
         \E k \in ColumnsOf(l) : Has(randomRow[k], DOWN)

\* the step gives column col a fresh set number
FreshStep == pc = "reset" /\ ~Has(row[col], DOWN)

\* C14: every set number given to a column that does not continue a DOWN
\* passage is positive and is the smallest integer that is nowhere in the
\* set array when it is given, although the search only moves forward from
\* the number given before.
C14_FreshLabel ==
    [][FreshStep =>
          /\ set'[col] >= 1
          /\ set'[col] \notin Labels(set)
          /\ \A n \in 1..(set'[col] - 1) : n \in Labels(set)
          /\ set'[col] >= startingSetNum]_vars

\* in a row below the first column col - 1 was given a fresh number, found
\* beyond numbers that sets which came down hold in later columns
C14_Witness ==
    /\ pc = "reset" /\ col > 0
    /\ genRow >= 1
    /\ startingSetNum >= 3
    /\ set[col - 1] = startingSetNum
    /\ \E k \in Cols(width) : k > col /\ set[k] < startingSetNum

\* C15: when makeRow(isLast = true) returns all columns have one set number;
\* the last loop carves between columns r and r+1 exactly when their
\* numbers differ as r is scanned, and never inside a set.
C15_FinalClosure ==
    /\ [](pc = "output" /\ isLastRow => \A i, j \in Cols(width) : set[i] = set[j])
    /\ [][pc = "close" =>
            IF set[col] # set[col + 1]
            THEN /\ ~Has(row[col], RIGHT) /\ Has(row'[col], RIGHT)
                 /\ ~Has(row[col + 1], LEFT) /\ Has(row'[col + 1], LEFT)
                 /\ set'[col] = set'[col + 1]
            ELSE row' = row /\ set' = set]_vars

\* the last row is made, the last loop has carved and has passed a pair of
\* columns that were in one set already
C15_Witness ==
    /\ pc = "output" /\ isLastRow
    /\ height >= 2
    /\ closures >= 1
    /\ closures < width - 1
    /\ \E r \in 0..(width - 2) : ~Has(row[r], RIGHT)
    /\ \A i, j \in Cols(width) : set[i] = set[j]

\* the cell of row y, column i of the grid that read() built
ParsedCell(y, i) == Nth(m.rows, y)[i]

\* C16: when no line was read beyond its end, the grid built by read and
\* convertRow has LEFT in cell (y, i) exactly when cell (y, i-1) has RIGHT,
\* for i >= 1, and UP in cell (y, i) exactly when cell (y-1, i) has DOWN, for
\* y >= 1; no cell of row 0 has UP.
C16_ParserSymmetry ==
    ReadDone /\ ~oobRead =>
        \A y \in 0..m.height : \A i \in Cols(m.width) :
            /\ i >= 1 => (Has(ParsedCell(y, i), LEFT)
                            <=> Has(ParsedCell(y, i - 1), RIGHT))
            /\ y >= 1 => (Has(ParsedCell(y, i), UP)
                            <=> Has(ParsedCell(y - 1, i), DOWN))
            /\ y = 0 => ~Has(ParsedCell(y, i), UP)

\* a text of full lines was read whose last line lacks a '_': a cell of the
\* last row has DOWN, and a cell beyond column 0 has both LEFT and UP
C16_Witness ==
    /\ ReadDone /\ ~oobRead
    /\ m.height >= 1 /\ m.width >= 2
    /\ \E i \in Cols(m.width) : Has(ParsedCell(m.height, i), DOWN)
    /\ \E y \in 0..m.height : \E i \in 1..(m.width - 1) :
          Has(ParsedCell(y, i), LEFT) /\ Has(ParsedCell(y, i), UP)

\* the order in which one call of solveMaze passes its steps
AttemptOrder ==
    [enter |-> "left", left |-> "up", up |-> "down", down |-> "right",
     right |-> "mark"]

\* the direction an attempt goes, and the cell it goes to
AttemptDir == [left |-> LEFT, up |-> UP, down |-> DOWN, right |-> RIGHT]
AttemptTarget(f) ==
    [left |-> <<Dec(f.x), f.y>>, up |-> <<f.x, Dec(f.y)>>,
     down |-> <<f.x, f.y + 1>>, right |-> <<f.x + 1, f.y>>]

\* the step is a call of solveMaze made by the innermost call
Calls == pc = "solve" /\ Len(stack') = Len(stack) + 1

\* the step is taken by the innermost call, which does not return
Stays == pc = "solve" /\ pc' = "solve" /\ Len(stack') >= Len(stack)

\* the CHECKED marks of the grid
CheckedCells(rows) ==
    {c \in SolCells : Has(Nth(rows, c[2])[c[1]], CHECKED)}

\* C17: a call of solveMaze passes its attempts in the order LEFT, UP, DOWN,
\* RIGHT, makes an attempt only through a passage of its cell and only when
\* no earlier attempt succeeded, and returns at once at the destination; once
\* the destination is marked no further call is made and no further cell
\* becomes CHECKED.
C17_SearchOrder ==
    /\ [][Stays => stack'[Len(stack)].pc = AttemptOrder[Top.pc]]_vars
    /\ [][Calls =>
            /\ ~Top.foundEnd
            /\ Has(Top.cell, AttemptDir[Top.pc])
            /\ stack'[Len(stack')].from = AttemptDir[Top.pc]
            /\ <<stack'[Len(stack')].x, stack'[Len(stack')].y>>
                   = AttemptTarget(Top)[Top.pc]]_vars
    /\ [][(/\ pc = "solve" /\ Top.pc = "enter"
           /\ <<Top.x, Top.y>> = DestCell
           /\ ~Has(ParsedCell(Top.y, Top.x), CHECKED))
          => /\ Len(stack') < Len(stack)
             /\ DestCell \in onPath'
             /\ IF stack' = <<>> THEN isSolvable'
                ELSE stack'[Len(stack')].foundEnd]_vars
    /\ [][(pc = "solve" /\ DestCell \in onPath)
          => /\ Len(stack') <= Len(stack)
             /\ passes' = passes
             /\ CheckedCells(m.rows') = CheckedCells(m.rows)]_vars

\* the way to the destination was found by an earlier attempt of a call that
\* has a further passage to a cell never visited, which it must not take
C17_Witness ==
    /\ pc = "solve"
    /\ DestCell \in onPath
    /\ Top.foundEnd
    /\ \/ /\ Top.pc = "up" /\ Top.from # DOWN /\ Has(Top.cell, UP)
          /\ <<Top.x, Top.y - 1>> \notin CheckedCells(m.rows)
       \/ /\ Top.pc = "right" /\ Top.from # LEFT /\ Has(Top.cell, RIGHT)
          /\ <<Top.x + 1, Top.y>> \notin CheckedCells(m.rows)
    /\ IsTree(m.rows, m.width, m.height + 1)

\* the grid that the solver was given, without the CHECKED marks, is a tree
SolvingTree ==
    /\ pc \in {"solve", "finish"}
    /\ IsTree(m.rows, m.width, m.height + 1)

\* C18 as claimed: on a grid that is a tree the depth of the recursion of
\* solveMaze never exceeds width + height.
C18_DepthClaimed ==
    maxDepth > m.width + m.height + 1 => ~SolvingTree

\* C18: on a grid that is a tree the calls of solveMaze that are active at
\* one time are on cells of the grid, no two on the same cell, so the depth
\* of the recursion never exceeds the number of cells, width * height.
C18_Depth ==
    SolvingTree =>
        /\ maxDepth <= m.width * (m.height + 1)
        /\ \A i, j \in DOMAIN stack :
              /\ <<stack[i].x, stack[i].y>> \in SolCells
              /\ i # j => <<stack[i].x, stack[i].y>> # <<stack[j].x, stack[j].y>>

\* a tree in which the search has as many calls active as there are cells,
\* more than width + height
C18_Witness ==
    /\ SolvingTree
    /\ Len(stack) = m.width * (m.height + 1)
    /\ Len(stack) > m.width + m.height + 1

\* C19: when makeRow returns, column 0 has no LEFT and column width-1 has no
\* RIGHT; row[i] has LEFT exactly when row[i-1] has RIGHT; row[r] has UP
\* exactly when previousRow[r], the row above, has DOWN; the first row has
\* no UP and the last
\* row has no DOWN; and in the finished maze every passage leads to a cell of
\* the grid that has the passage back.
C19_RowWellFormed ==
    /\ pc = "output" =>
          /\ ~Has(row[0], LEFT)
          /\ ~Has(row[width - 1], RIGHT)
          /\ \A i \in 1..(width - 1) :
                Has(row[i], LEFT) <=> Has(row[i - 1], RIGHT)
          /\ \A r \in Cols(width) :
                /\ Has(row[r], UP) <=> Has(previousRow[r], DOWN)
                /\ isFirstRow => ~Has(row[r], UP)
                /\ isLastRow => ~Has(row[r], DOWN)
                /\ genRow >= 1 => previousRow[r] = maze[genRow][r]
    /\ GenDone => WellFormed(maze, width, height)

\* makeRow has returned a row of full width below the first that has a
\* passage to the left, a passage up and a column without a passage up
C19_Witness ==
    /\ pc = "output"
    /\ width = MaxWidth /\ genRow >= 1
    /\ \E i \in 1..(width - 1) : Has(row[i], LEFT)
    /\ \E r \in Cols(width) : Has(row[r], UP)
    /\ \E r \in Cols(width) : ~Has(row[r], UP)

\* the corners the solver starts from and goes to, in the generator's grid
GenStart == <<0, height - 1>>
GenDest == <<width - 1, 0>>

\* C20: on the text of every maze genmaze prints, solveMaze never takes a
\* cell outside rows 0..height-1 and columns 0..width-1, the search from the
\* bottom-left cell succeeds, and the marked cells are exactly the cells of
\* the only path of the maze to the top-right cell.
C20_EndToEnd ==
    /\ ~oobCell
    /\ (pc \in GenPhases \/ stack = <<>>) \/
          \A k \in DOMAIN stack :
              <<stack[k].x, stack[k].y>> \in GridCells(width, height)
    /\ Returned =>
          /\ isSolvable
          /\ IsSimplePath(maze, MarkedCells, GenStart, GenDest)
          /\ MarkedCells = OnEveryPath(maze, width, height, GenStart, GenDest)

\* a generated maze of the largest size was solved: the path turns through
\* several cells and the search went into a dead end
C20_Witness ==
    /\ Returned /\ isSolvable
    /\ width = MaxWidth /\ height = MaxHeight
    /\ Len(maze) = height
    /\ Cardinality(MarkedCells) >= 7
    /\ \E c \in SolCells : passes[c] = 1 /\ c \notin MarkedCells

====
